---- MODULE Spec2Model ----
(***************************************************************************)
(* A model of py/newt/config.py (class NewtConfigParser): the key-path     *)
(* expander _parse, the tree cleaner and fold _build, the merger           *)
(* merge_containers, the resolver _resolve and the orderer _build_pkg.     *)
(*                                                                         *)
(* Python values are tagged records:                                       *)
(*   None, PInt(n), PStr(s), PList(<<values>>), PDict(<<items>>)               *)
(* A dict keeps its items in insertion order, as Python's dict does.       *)
(* An exception that leaves a function is the value Raise(class, path).    *)
(***************************************************************************)
EXTENDS Integers, Sequences, FiniteSets, TLC

VARIABLES
    syscfgs,      \* self._syscfgs: dict modname -> module tree
    pkgs,         \* self._pkgs: dict modname -> module tree
    syscfg,       \* self._syscfg: the system-configuration aggregate
    defs,         \* self._defs: the definitions table
    inits,        \* self._inits: the ordered initializer names
    pc,           \* the line the program is at
    output,       \* _build's accumulator `output`
    idx,          \* _build's position in items.values()
    initems,      \* _build_pkg's local `inits` (the pkg.init mapping)
    cinits,       \* _build_pkg's local `cinits`
    ci,           \* _build_pkg's position in inits.items()
    name,         \* _resolve's local `name`
    yamlfp,       \* _parse's input: the documents yaml_load yields
    contents,     \* _parse's result
    obj_a,        \* merge_containers' left operand
    obj_b,        \* merge_containers' right operand
    ignore_error, \* merge_containers' tolerant flag
    merged        \* merge_containers' result

vars == <<syscfgs, pkgs, syscfg, defs, inits, pc, output, idx, initems,
          cinits, ci, name, yamlfp, contents, obj_a, obj_b, ignore_error,
          merged>>

(***************************************************************************)
(* Bounds                                                                  *)
(***************************************************************************)
\* the integers a document may hold are 1..MaxPrio
MaxPrio == 2
\* the number of files (syscfg.yml and pkg.yml together) a scan finds
MaxFiles == 2
\* the number of documents of one file given to _parse
MaxDocs == 2

(***************************************************************************)
(* Python values                                                           *)
(***************************************************************************)
\* t: the type; i: an int's value; s: a str's text or an exception's class;
\* v: a list's elements or a dict's items; p: an exception's key path
None == [t |-> "none", i |-> 0, s |-> "", v |-> <<>>, p |-> <<>>]
PInt(n) == [t |-> "int", i |-> n, s |-> "", v |-> <<>>, p |-> <<>>]
PStr(s) == [t |-> "str", i |-> 0, s |-> s, v |-> <<>>, p |-> <<>>]
PList(s) == [t |-> "list", i |-> 0, s |-> "", v |-> s, p |-> <<>>]
PDict(s) == [t |-> "dict", i |-> 0, s |-> "", v |-> s, p |-> <<>>]
Item(k, x) == [k |-> k, v |-> x]
\* an exception of class exc; path is the dotted key path merge_containers
\* puts in front of its message
Raise(exc, path) == [t |-> "raise", i |-> 0, s |-> exc, v |-> <<>>, p |-> path]

IsNone(x) == x.t = "none"
IsDict(x) == x.t = "dict"
IsList(x) == x.t = "list"
IsStr(x) == x.t = "str"
IsInt(x) == x.t = "int"
IsRaise(x) == x.t = "raise"
IsScalar(x) == x.t \in {"int", "str"}

\* d.keys() as a set, `k in d`, d[k], d[k] = x (an existing key keeps its
\* place, a new key goes last)
KeySet(d) == {d.v[i].k : i \in DOMAIN d.v}
Keys(d) == [i \in DOMAIN d.v |-> d.v[i].k]
Has(d, k) == \E i \in DOMAIN d.v : d.v[i].k = k
Get(d, k) == d.v[CHOOSE i \in DOMAIN d.v : d.v[i].k = k].v
Put(d, k, x) ==
    IF Has(d, k)
    THEN PDict([i \in DOMAIN d.v |-> IF d.v[i].k = k THEN Item(k, x) ELSE d.v[i]])
    ELSE PDict(Append(d.v, Item(k, x)))

\* the value at a path of keys below the mapping top
RECURSIVE At(_, _)
At(top, path) ==
    IF path = <<>> THEN top ELSE At(Get(top, Head(path)), Tail(path))

\* whether every key of the path exists, through mappings only
RECURSIVE HasPath(_, _)
HasPath(top, path) ==
    IF path = <<>> THEN TRUE
    ELSE IsDict(top) /\ Has(top, Head(path))
         /\ HasPath(Get(top, Head(path)), Tail(path))

\* top with the value at the path replaced (an assignment through a
\* reference into the tree)
RECURSIVE SetAt(_, _, _)
SetAt(top, path, x) ==
    IF path = <<>> THEN x
    ELSE Put(top, Head(path), SetAt(Get(top, Head(path)), Tail(path), x))

(***************************************************************************)
(* Strings.  TLC cannot take a string apart, so each string function is    *)
(* tabulated over the strings the documents of this model hold.            *)
(***************************************************************************)
\* ykey.split('.', 1)
split1(ykey) ==
    CASE ykey = "a.b" -> <<"a", "b">>
      [] ykey = "a.b.c" -> <<"a", "b.c">>
      [] ykey = "b.c" -> <<"b", "c">>
      [] ykey = "pkg.init" -> <<"pkg", "init">>
      [] ykey = "syscfg.defs" -> <<"syscfg", "defs">>
      [] OTHER -> <<ykey>>

\* path.split('.')
RECURSIVE split(_)
split(path) ==
    LET kparts == split1(path)
    IN IF Len(kparts) = 1 THEN kparts ELSE <<kparts[1]>> \o split(kparts[2])

\* NEWT_CRE.sub(r'\3', value): MYNEWT_VAL(NAME), MYNEWT_VAL_NAME and
\* MYNEWT_VALNAME become NAME, any other text stays
NEWT_CRE_sub(value) ==
    CASE value = "MYNEWT_VAL(P)" -> "P"
      [] value = "MYNEWT_VAL_Q" -> "Q"
      [] OTHER -> value

\* str.__lt__ on the names that can become sort keys (code point order)
StrRank(s) ==
    CASE s = "" -> 0
      [] s = "MYNEWT_VAL(P)" -> 1
      [] s = "MYNEWT_VAL_Q" -> 2
      [] s = "P" -> 3
      [] s = "Q" -> 4
      [] s = "d" -> 5
      [] OTHER -> 6

(***************************************************************************)
(* _parse: the key-path expander                                           *)
(***************************************************************************)
\* One (ykey, yval) pair of a document entry, lines 65-77.  `path` leads
\* from top to `source`; prev is <<>> or <<path of prev[0], prev[1]>>, so
\* prev[0][prev[1]] is the value at prev[1] \o <<prev[2]>>.
RECURSIVE walk(_, _, _, _, _)
walk(top, path, prev, ykey, yval) ==
    LET source == At(top, path)
        kparts == split1(ykey)
    IN IF Len(kparts) = 1
       THEN IF ~IsDict(source) /\ prev # <<>>
            THEN LET ppath == Append(prev[1], prev[2])
                     wrapped == PDict(<<Item("", At(top, ppath))>>)
                 IN [top |-> SetAt(top, ppath, Put(wrapped, ykey, yval)),
                     prev |-> prev]
            ELSE IF ~IsDict(source)
            THEN [top |-> Raise("TypeError", <<>>), prev |-> prev]
            ELSE [top |-> SetAt(top, path, Put(source, ykey, yval)),
                  prev |-> prev]
       ELSE IF ~IsDict(source)
            \* `kparts[0] not in source`, `source[kparts[0]] = {}` or
            \* `source[kparts[0]]` on an int, a str, a list or None
            THEN [top |-> Raise("TypeError", <<>>), prev |-> prev]
            ELSE LET top2 == IF ~Has(source, kparts[1])
                             THEN SetAt(top, path, Put(source, kparts[1], PDict(<<>>)))
                             ELSE top
                 IN walk(top2, Append(path, kparts[1]), <<path, kparts[1]>>,
                         kparts[2], yval)

\* for ykey, yval in ydef.items(), lines 64-77, from item i on
RECURSIVE expand(_, _, _, _)
expand(ydef, i, top, prev) ==
    IF i > Len(ydef.v) THEN top
    ELSE LET r == walk(top, <<>>, prev, ydef.v[i].k, ydef.v[i].v)
         IN IF IsRaise(r.top) THEN r.top
            ELSE expand(ydef, i + 1, r.top, r.prev)

\* for ydef in ydefs, lines 58-78, from document i on
RECURSIVE parse_from(_, _, _, _)
parse_from(ydefs, i, modname, cont) ==
    IF i > Len(ydefs) THEN cont
    ELSE IF ~IsDict(ydefs[i]) THEN Raise("NewtError", <<>>)
    ELSE LET top == expand(ydefs[i], 1, PDict(<<>>), <<>>)
         IN IF IsRaise(top) THEN top
            ELSE parse_from(ydefs, i + 1, modname, Put(cont, modname, top))

\* _parse(yamlfp) for a file in directory modname
parse(ydefs, modname) == parse_from(ydefs, 1, modname, PDict(<<>>))

(***************************************************************************)
(* _build: the tree cleaner                                                *)
(***************************************************************************)
\* the nested cleanup(obj) of _build, lines 129-148; cleanup_items is its
\* loop over obj.items() from item i on, with cobj built so far
RECURSIVE cleanup(_, _)
RECURSIVE cleanup_items(_, _, _, _)
cleanup_value(value) ==
    LET unwrapped == IF IsDict(value) /\ Len(value.v) = 1 /\ Has(value, "value")
                     THEN Get(value, "value") ELSE value
    IN IF IsStr(unwrapped) /\ unwrapped.s # ""
       THEN PStr(NEWT_CRE_sub(unwrapped.s)) ELSE unwrapped

cleanup_items(obj, i, cobj, keywords) ==
    IF i > Len(obj.v) THEN cobj
    ELSE LET okey == obj.v[i].k
             value == cleanup(obj.v[i].v, keywords)
         IN IF okey = "description" \/ IsNone(value)
            THEN cleanup_items(obj, i + 1, cobj, keywords)
            ELSE cleanup_items(obj, i + 1, Put(cobj, okey, cleanup_value(value)),
                               keywords)

cleanup(obj, keywords) ==
    IF ~IsDict(obj) THEN obj
    ELSE IF \E keyword \in keywords : Has(obj, keyword) THEN None
    ELSE cleanup_items(obj, 1, PDict(<<>>), keywords)

(***************************************************************************)
(* merge_containers                                                        *)
(***************************************************************************)
\* The iteration order of a set of keys (overlapping_keys and the two key
\* differences are Python sets): the keys of S in the order `order` gives.
SetOrder(S, order) == SelectSeq(order, LAMBDA k : k \in S)

\* a merge that lets the right operand replace a list
merge_list_replace(a, b) == IF IsNone(b) THEN PList(a.v) ELSE b

\* lines 165-172: obj_a is a list
merge_list(a, b) ==
    IF IsList(b) THEN PList(a.v \o b.v)
    ELSE IF ~IsNone(b) THEN PList(Append(a.v, b))
    ELSE PList(a.v)

\* a merge that lets the right operand win a shape mismatch too
merge_failure_right(a, b, ignore) == b

\* lines 179-185: obj_b has no keys(): the merge failure
merge_failure(a, b, ignore) ==
    IF ignore THEN a ELSE Raise("ValueError", <<>>)

\* lines 192-195: the keys of one operand only, copied in set order
RECURSIVE copy_keys(_, _, _, _)
copy_keys(dict_c, src, keys, i) ==
    IF i > Len(keys) THEN dict_c
    ELSE copy_keys(Put(dict_c, keys[i], Get(src, keys[i])), src, keys, i + 1)

RECURSIVE merge_containers(_, _, _, _)
RECURSIVE merge_overlapping(_, _, _, _, _, _, _)
\* lines 186-191: the overlapping keys from position i on; a ValueError of
\* the recursive call is raised again with the key in front
merge_overlapping(dict_c, a, b, keys, i, ignore, order) ==
    IF i > Len(keys) THEN dict_c
    ELSE LET r == merge_containers(Get(a, keys[i]), Get(b, keys[i]), ignore, order)
         IN IF IsRaise(r)
            THEN Raise(r.s, <<keys[i]>> \o r.p)
            ELSE merge_overlapping(Put(dict_c, keys[i], r), a, b, keys, i + 1,
                                   ignore, order)

merge_containers(a, b, ignore, order) ==
    IF IsList(a) THEN merge_list(a, b)
    ELSE IF IsDict(a)
    THEN IF IsNone(b) THEN a
         ELSE IF ~IsDict(b) THEN merge_failure(a, b, ignore)
         ELSE LET overlapping_keys == KeySet(a) \cap KeySet(b)
                  c1 == merge_overlapping(PDict(<<>>), a, b,
                                          SetOrder(overlapping_keys, order), 1,
                                          ignore, order)
              IN IF IsRaise(c1) THEN c1
                 ELSE LET c2 == copy_keys(c1, a,
                                    SetOrder(KeySet(a) \ overlapping_keys, order), 1)
                      IN copy_keys(c2, b,
                                   SetOrder(KeySet(b) \ overlapping_keys, order), 1)
    ELSE b

(***************************************************************************)
(* _get, and the orderer's sort                                            *)
(***************************************************************************)
\* _get(items, path), lines 109-115, over the path segments
RECURSIVE get_from(_, _)
get_from(items, pths) ==
    IF pths = <<>> THEN items
    ELSE IF ~IsDict(items) THEN Raise("TypeError", <<>>)
    ELSE IF ~Has(items, Head(pths)) THEN PDict(<<>>)
    ELSE get_from(Get(items, Head(pths)), Tail(pths))

get(items, path) == get_from(items, split(path))

\* x < y as Python evaluates it on two sort keys: "T", "F", or "E" when
\* it raises TypeError (different types, two dicts, two None)
RECURSIVE py_lt(_, _)
RECURSIVE list_lt(_, _, _)
list_lt(x, y, i) ==
    IF i > Len(x) \/ i > Len(y)
    THEN IF Len(x) < Len(y) THEN "T" ELSE "F"
    ELSE IF x[i] = y[i] THEN list_lt(x, y, i + 1)
    ELSE py_lt(x[i], y[i])

py_lt(x, y) ==
    IF IsInt(x) /\ IsInt(y) THEN IF x.i < y.i THEN "T" ELSE "F"
    ELSE IF IsStr(x) /\ IsStr(y)
    THEN IF StrRank(x.s) < StrRank(y.s) THEN "T" ELSE "F"
    ELSE IF IsList(x) /\ IsList(y) THEN list_lt(x.v, y.v, 1)
    ELSE "E"

\* One insertion of sorted()'s binary insertion sort: f goes behind every
\* element whose key is not greater (which is what keeps the sort stable).
\* j is the element f is compared with next.
RECURSIVE sorted_insert(_, _, _, _)
sorted_insert(out, f, key, j) ==
    IF j = 0 THEN PList(<<f>> \o out)
    ELSE LET lt == py_lt(Get(key, f), Get(key, out[j]))
         IN IF lt = "E" THEN Raise("TypeError", <<>>)
            ELSE IF lt = "T" THEN sorted_insert(out, f, key, j - 1)
            ELSE PList(SubSeq(out, 1, j) \o <<f>> \o SubSeq(out, j + 1, Len(out)))

\* sorted(cinits, key=lambda f: cinits[f]), line 91, from name i on: the
\* list of names, or the TypeError of a comparison
RECURSIVE sorted_from(_, _, _, _)
sorted_from(names, key, i, out) ==
    IF i > Len(names) THEN PList(out)
    ELSE LET r == sorted_insert(out, names[i], key, Len(out))
         IN IF IsRaise(r) THEN r ELSE sorted_from(names, key, i + 1, r.v)

\* an orderer that keeps the order of cinits
sorted_unordered(key) == PList(Keys(key))

sorted(key) == sorted_from(Keys(key), key, 1, <<>>)

(***************************************************************************)
(* The documents of the model                                              *)
(***************************************************************************)
\* every key of the model, in one order; a set of keys is iterated in this
\* order or in the reverse one, so that any two keys come in both orders
AllKeys == <<"", "a", "b", "c", "x", "y", "f", "g", "P", "Q", "pkg", "init",
             "syscfg", "defs", "value", "range", "deprecated", "description",
             "m1", "m2", "m3", "m4", "m5", "m6">>
Reverse(s) == [i \in DOMAIN s |-> s[Len(s) + 1 - i]]
HashOrders == {AllKeys, Reverse(AllKeys)}

\* the directory of the n-th file os.walk() yields
ModNames == <<"m1", "m2", "m3", "m4", "m5", "m6">>

Prios == {PInt(n) : n \in 1..MaxPrio}
\* references to definitions, with and without the macro spelling
Refs == {PStr("MYNEWT_VAL(P)"), PStr("Q")}
DefNames == {"P", "Q"}
InitNames == {"f", "g"}
Deprecated == PDict(<<Item("value", PInt(1)), Item("deprecated", PInt(1))>>)
Ranged == PDict(<<Item("value", PInt(1)), Item("range", PInt(2))>>)
Described(x) == PDict(<<Item("description", PStr("d")), Item("value", x)>>)

\* a syscfg.yml: one document, `syscfg.defs: {name: setting, ...}`
SysFile(items) == <<PDict(<<Item("syscfg.defs", PDict(items))>>)>>
SyscfgFiles ==
    {SysFile(<<Item("P", x), Item("Q", y)>>) :
        x \in {Described(z) : z \in Prios} \cup Refs,
        y \in {Described(PInt(1)), PStr("MYNEWT_VAL(P)")}}
    \cup {SysFile(<<Item("P", PList(<<PInt(1)>>))>>),
          SysFile(<<Item("Q", Ranged)>>),
          SysFile(<<Item("P", Deprecated)>>)}

\* a pkg.yml: one document, `pkg.init: {name: reference, ...}`
PkgFile(items) == <<PDict(<<Item("pkg.init", PDict(items))>>)>>
PkgFiles ==
    {PkgFile(<<Item(n, x)>>) : n \in InitNames, x \in Refs}
    \cup {PkgFile(<<Item("f", PList(<<PInt(1)>>))>>),
          PkgFile(<<Item("g", Deprecated)>>)}
    \cup {PkgFile(<<Item("f", x), Item("g", y)>>) : x \in Refs, y \in Refs}

(***************************************************************************)
(* scan, _build_syscfg, _build_pkg and _resolve, step by step              *)
(***************************************************************************)
NoParse == yamlfp = <<>> /\ contents = None
NoMerge == obj_a = None /\ obj_b = None /\ ignore_error = FALSE /\ merged = None

Init ==
    /\ syscfgs = PDict(<<>>) /\ pkgs = PDict(<<>>)
    /\ syscfg = PDict(<<>>) /\ defs = PDict(<<>>)
    /\ inits = <<>>
    /\ pc = "scan"
    /\ output = None /\ idx = 0
    /\ initems = None /\ cinits = None /\ ci = 0 /\ name = None
    /\ NoParse /\ NoMerge

parseVars == <<yamlfp, contents>>
mergeVars == <<obj_a, obj_b, ignore_error, merged>>
resolveVars == <<initems, cinits, ci, name>>

NFiles == Len(syscfgs.v) + Len(pkgs.v)

\* dict.update(other)
RECURSIVE update(_, _, _)
update(d, other, i) ==
    IF i > Len(other.v) THEN d
    ELSE update(Put(d, other.v[i].k, other.v[i].v), other, i + 1)

\* scan, lines 44-46: a syscfg.yml is found and parsed
ScanSyscfg ==
    /\ pc = "scan" /\ NFiles < MaxFiles
    /\ \E ydefs \in SyscfgFiles \cup {<<PInt(1)>>} :
         LET r == parse(ydefs, ModNames[NFiles + 1])
         IN IF IsRaise(r)
            THEN pc' = "raise_parse" /\ syscfgs' = syscfgs
            ELSE pc' = pc /\ syscfgs' = update(syscfgs, r, 1)
    /\ UNCHANGED <<pkgs, syscfg, defs, inits, output, idx>>
    /\ UNCHANGED <<resolveVars, parseVars, mergeVars>>

\* scan, lines 47-49: a pkg.yml is found and parsed
ScanPkg ==
    /\ pc = "scan" /\ NFiles < MaxFiles
    /\ \E ydefs \in PkgFiles :
         LET r == parse(ydefs, ModNames[NFiles + 1])
         IN IF IsRaise(r)
            THEN pc' = "raise_parse" /\ pkgs' = pkgs
            ELSE pc' = pc /\ pkgs' = update(pkgs, r, 1)
    /\ UNCHANGED <<syscfgs, syscfg, defs, inits, output, idx>>
    /\ UNCHANGED <<resolveVars, parseVars, mergeVars>>

\* scan, line 50, and _build, line 149: the walk is over
BuildSyscfg ==
    /\ pc = "scan"
    /\ pc' = "build_syscfg" /\ output' = PDict(<<>>) /\ idx' = 1
    /\ UNCHANGED <<syscfgs, pkgs, syscfg, defs, inits>>
    /\ UNCHANGED <<resolveVars, parseVars, mergeVars>>

\* one turn of _build's loop, lines 150-152
fold(out, val, keywords, order) ==
    merge_containers(out, cleanup(val, keywords), TRUE, order)

\* _build(self._syscfgs, 'deprecated'): one module tree is folded in
SyscfgFold ==
    /\ pc = "build_syscfg" /\ idx <= Len(syscfgs.v)
    /\ \E order \in HashOrders :
         LET r == fold(output, syscfgs.v[idx].v, {"deprecated"}, order)
         IN IF IsRaise(r)
            THEN pc' = "raise_merge" /\ UNCHANGED <<output, idx>>
            ELSE pc' = pc /\ output' = r /\ idx' = idx + 1
    /\ UNCHANGED <<syscfgs, pkgs, syscfg, defs, inits>>
    /\ UNCHANGED <<resolveVars, parseVars, mergeVars>>

\* _build_syscfg, lines 105-106, then _build_pkg's _build, line 149
SyscfgDone ==
    /\ pc = "build_syscfg" /\ idx > Len(syscfgs.v)
    /\ syscfg' = output
    /\ LET d == get(output, "syscfg.defs")
       IN IF IsRaise(d)
          THEN pc' = "raise_get" /\ UNCHANGED <<defs, output, idx>>
          ELSE pc' = "build_pkg" /\ defs' = d
               /\ output' = PDict(<<>>) /\ idx' = 1
    /\ UNCHANGED <<syscfgs, pkgs, inits>>
    /\ UNCHANGED <<resolveVars, parseVars, mergeVars>>

\* _build(self._pkgs): one module tree is folded in
PkgFold ==
    /\ pc = "build_pkg" /\ idx <= Len(pkgs.v)
    /\ \E order \in HashOrders :
         LET r == fold(output, pkgs.v[idx].v, {}, order)
         IN IF IsRaise(r)
            THEN pc' = "raise_merge" /\ UNCHANGED <<output, idx>>
            ELSE pc' = pc /\ output' = r /\ idx' = idx + 1
    /\ UNCHANGED <<syscfgs, pkgs, syscfg, defs, inits>>
    /\ UNCHANGED <<resolveVars, parseVars, mergeVars>>

\* _build_pkg, lines 84-86: inits = _get(..., 'pkg.init'); inits.items()
PkgInits ==
    /\ pc = "build_pkg" /\ idx > Len(pkgs.v)
    /\ LET i == get(output, "pkg.init")
       IN IF IsRaise(i) THEN pc' = "raise_get" /\ UNCHANGED <<initems, cinits, ci>>
          ELSE IF ~IsDict(i)
          THEN pc' = "raise_items" /\ UNCHANGED <<initems, cinits, ci>>
          ELSE pc' = "cinits" /\ initems' = i /\ cinits' = PDict(<<>>) /\ ci' = 1
    /\ UNCHANGED <<syscfgs, pkgs, syscfg, defs, inits, output, idx, name>>
    /\ UNCHANGED <<parseVars, mergeVars>>

\* lines 87-88: an entry whose value is a mapping is passed over
InitSkip ==
    /\ pc = "cinits" /\ ci <= Len(initems.v)
    /\ IsDict(initems.v[ci].v)
    /\ ci' = ci + 1
    /\ UNCHANGED <<syscfgs, pkgs, syscfg, defs, inits, pc, output, idx>>
    /\ UNCHANGED <<initems, cinits, name, parseVars, mergeVars>>

\* line 89: self._resolve(value) is entered
InitResolve ==
    /\ pc = "cinits" /\ ci <= Len(initems.v)
    /\ ~IsDict(initems.v[ci].v)
    /\ name' = initems.v[ci].v
    /\ pc' = "resolve"
    /\ UNCHANGED <<syscfgs, pkgs, syscfg, defs, inits, output, idx>>
    /\ UNCHANGED <<initems, cinits, ci, parseVars, mergeVars>>

\* `name in value` of _resolve, line 120: a str names a key; an int or None
\* is hashable and no key of a table of names
InDefs(n) == IsStr(n) /\ Has(defs, n.s)
Unhashable(n) == IsList(n) \/ IsDict(n)

\* `return name`, line 126, back in _build_pkg's line 89
Return(result) ==
    /\ cinits' = Put(cinits, initems.v[ci].k, result)
    /\ ci' = ci + 1
    /\ pc' = "cinits"
    /\ UNCHANGED <<syscfgs, pkgs, syscfg, defs, inits, output, idx>>
    /\ UNCHANGED <<initems, name, parseVars, mergeVars>>

\* lines 119-121: the table is no mapping, or the name is not in it
ResolveBreak ==
    /\ pc = "resolve"
    /\ ~IsDict(defs) \/ (~Unhashable(name) /\ ~InDefs(name))
    /\ Return(name)

\* line 120: `name in value` on a list raises TypeError (unhashable)
ResolveTypeError ==
    /\ pc = "resolve"
    /\ IsDict(defs) /\ Unhashable(name)
    /\ pc' = "raise_resolve"
    /\ UNCHANGED <<syscfgs, pkgs, syscfg, defs, inits, output, idx>>
    /\ UNCHANGED <<resolveVars, parseVars, mergeVars>>

\* lines 119-120: the table is a mapping and the name is in it
ResolveFound ==
    /\ pc = "resolve"
    /\ IsDict(defs) /\ InDefs(name)
    /\ pc' = "lookup"
    /\ UNCHANGED <<syscfgs, pkgs, syscfg, defs, inits, output, idx>>
    /\ UNCHANGED <<resolveVars, parseVars, mergeVars>>

\* a resolver that returns what the first lookup yields
ResolveHopReturn ==
    /\ pc = "lookup"
    /\ ~Unhashable(Get(defs, name.s))
    /\ Return(Get(defs, name.s))

\* lines 122-123, and back to line 119: the lookup yields a scalar
ResolveHop ==
    /\ pc = "lookup"
    /\ ~Unhashable(Get(defs, name.s))
    /\ name' = Get(defs, name.s)
    /\ pc' = "resolve"
    /\ UNCHANGED <<syscfgs, pkgs, syscfg, defs, inits, output, idx>>
    /\ UNCHANGED <<initems, cinits, ci, parseVars, mergeVars>>

\* lines 122-125: the lookup yields a list or a mapping, which is returned
ResolveWarn ==
    /\ pc = "lookup"
    /\ Unhashable(Get(defs, name.s))
    /\ Return(Get(defs, name.s))

\* lines 90-92: self._inits.clear(), then the sorted names are appended
SortInits ==
    /\ pc = "cinits" /\ ci > Len(initems.v)
    /\ LET r == sorted(cinits)
       IN IF IsRaise(r)
          THEN pc' = "raise_sorted" /\ inits' = <<>>
          ELSE pc' = "done" /\ inits' = r.v
    /\ UNCHANGED <<syscfgs, pkgs, syscfg, defs, output, idx>>
    /\ UNCHANGED <<resolveVars, parseVars, mergeVars>>

Next ==
    \/ ScanSyscfg \/ ScanPkg \/ BuildSyscfg
    \/ SyscfgFold \/ SyscfgDone
    \/ PkgFold \/ PkgInits
    \/ InitSkip \/ InitResolve
    \/ ResolveBreak \/ ResolveTypeError \/ ResolveFound
    \/ ResolveHop \/ ResolveWarn
    \/ SortInits

Spec == Init /\ [][Next]_vars

\* _resolve runs on once it is entered: whichever of its steps can be taken
\* is taken
LiveSpec ==
    /\ Init /\ [][Next]_vars
    /\ WF_vars(ResolveBreak) /\ WF_vars(ResolveTypeError)
    /\ WF_vars(ResolveFound) /\ WF_vars(ResolveHop) /\ WF_vars(ResolveWarn)

(***************************************************************************)
(* _parse alone, on one file                                               *)
(***************************************************************************)
ParseKeys == {"a", "a.b", "a.b.c"}
ParseVals == Prios \cup {PDict(<<Item("b", PInt(1))>>)}
\* the key orders of a document entry: no key twice
KeySeqs ==
    {ks \in UNION {[1..n -> ParseKeys] : n \in 0..Cardinality(ParseKeys)} :
        \A i, j \in DOMAIN ks : i # j => ks[i] # ks[j]}
Entries ==
    UNION {{PDict([i \in DOMAIN ks |-> Item(ks[i], vs[i])]) :
               vs \in [DOMAIN ks -> ParseVals]} : ks \in KeySeqs}
OneKeyEntries ==
    {PDict(<<Item(k, x)>>) : k \in ParseKeys \cup {"b"}, x \in ParseVals}
\* a file: one document entry of any shape, or up to MaxDocs one-key
\* entries, or no document, or a document that is no mapping
ParseFiles ==
    {<<e>> : e \in Entries}
    \cup UNION {[1..n -> OneKeyEntries] : n \in 0..MaxDocs}
    \cup {<<PInt(1)>>}

InitParse ==
    /\ syscfgs = PDict(<<>>) /\ pkgs = PDict(<<>>)
    /\ syscfg = PDict(<<>>) /\ defs = PDict(<<>>)
    /\ inits = <<>>
    /\ pc = "parse"
    /\ output = None /\ idx = 0
    /\ initems = None /\ cinits = None /\ ci = 0 /\ name = None
    /\ yamlfp \in ParseFiles /\ contents = None
    /\ NoMerge

\* _parse(yamlfp), lines 53-81, of a file in directory m1
Parse ==
    /\ pc = "parse"
    /\ contents' = parse(yamlfp, "m1")
    /\ pc' = "parsed"
    /\ UNCHANGED <<syscfgs, pkgs, syscfg, defs, inits, output, idx, yamlfp>>
    /\ UNCHANGED <<resolveVars, mergeVars>>

NextParse == Parse

SpecParse == InitParse /\ [][NextParse]_vars

(***************************************************************************)
(* merge_containers alone, on two operands                                 *)
(***************************************************************************)
MergeLeaves == Prios \cup {None, PList(<<PInt(1)>>)}
MergeInner ==
    {PDict(<<>>), PDict(<<Item("y", PDict(<<>>))>>)}
    \cup {PDict(<<Item("y", x)>>) : x \in MergeLeaves}
MergeVals == MergeLeaves \cup MergeInner
MergeOperands ==
    {PDict(<<>>)}
    \cup {PDict(<<Item(k, x)>>) : k \in {"x", "y"}, x \in MergeVals}
    \cup {PDict(<<Item("x", x), Item("y", y)>>) : x \in MergeVals, y \in MergeVals}

InitMerge ==
    /\ syscfgs = PDict(<<>>) /\ pkgs = PDict(<<>>)
    /\ syscfg = PDict(<<>>) /\ defs = PDict(<<>>)
    /\ inits = <<>>
    /\ pc = "merge"
    /\ output = None /\ idx = 0
    /\ initems = None /\ cinits = None /\ ci = 0 /\ name = None
    /\ NoParse
    /\ obj_a \in MergeOperands /\ obj_b \in MergeOperands
    /\ ignore_error \in BOOLEAN
    /\ merged = None

\* merge_containers(obj_a, obj_b, ignore_error), lines 155-197
Merge ==
    /\ pc = "merge"
    /\ \E order \in HashOrders :
         merged' = merge_containers(obj_a, obj_b, ignore_error, order)
    /\ pc' = "merged"
    /\ UNCHANGED <<syscfgs, pkgs, syscfg, defs, inits, output, idx>>
    /\ UNCHANGED <<obj_a, obj_b, ignore_error, resolveVars, parseVars>>

NextMerge == Merge

SpecMerge == InitMerge /\ [][NextMerge]_vars

(***************************************************************************)
(* Properties of the orderer and the resolver (Spec, LiveSpec)             *)
(***************************************************************************)
Range(q) == {q[i] : i \in DOMAIN q}

\* the pkg.init entries of a package tree whose value is no mapping
Initializers(tree) ==
    LET i == get(tree, "pkg.init")
    IN {k \in KeySet(i) : ~IsDict(Get(i, k))}

\* C1: when _build_pkg has produced the initializer list, the list holds
\* exactly the names of the pkg.init entries of the merged package tree
\* whose value is not a mapping, each once, and no later name has a resolved
\* sort key less than an earlier name's.
C1_InitializerOrdering ==
    pc = "done" =>
        /\ Range(inits) = Initializers(output)
        /\ \A i, j \in DOMAIN inits : i # j => inits[i] # inits[j]
        /\ \A i, j \in DOMAIN inits :
              i < j => py_lt(Get(cinits, inits[j]), Get(cinits, inits[i])) = "F"

\* the example of C1: f resolves to 2, g to 1, and the list is [g, f]
C1_Witness ==
    /\ pc = "done"
    /\ Keys(initems) = <<"f", "g">> /\ Keys(cinits) = <<"f", "g">>
    /\ Get(cinits, "f") = PInt(2) /\ Get(cinits, "g") = PInt(1)
    /\ inits = <<"g", "f">>

\* C2: every call of _resolve returns: the loop is left after finitely many
\* table lookups, whatever the table holds.
InResolve == pc \in {"resolve", "lookup"}
C2_ResolverTerminates == InResolve ~> ~InResolve

\* n(0) = n, n(i+1) = table[n(i)] for as long as n(i) is a name of the table
\* (at most k times): the chain C3 speaks of
RECURSIVE Chain(_, _, _)
Chain(table, n, k) ==
    IF k = 0 \/ ~IsDict(table) \/ ~IsStr(n) THEN {n}
    ELSE IF ~Has(table, n.s) THEN {n}
    ELSE {n} \cup Chain(table, Get(table, n.s), k - 1)

\* C3: what _resolve returned for an entry lies on the chain that starts at
\* the entry's value, and is the first value of the chain that is no key of
\* the definitions table: an absent name (the start itself when the start
\* is absent) or a list or mapping a hop yielded.
C3_ResolverResult ==
    IsDict(cinits) =>
        \A e \in DOMAIN cinits.v :
            LET n0 == Get(initems, cinits.v[e].k)
                result == cinits.v[e].v
            IN /\ result \in Chain(defs, n0, Len(defs.v))
               /\ ~(IsStr(result) /\ Has(defs, result.s))
               /\ ~(IsStr(n0) /\ Has(defs, n0.s)) => result = n0

\* the chain P -> Q -> 1 has been followed to its end
C3_Witness ==
    /\ IsDict(cinits) /\ Has(cinits, "f")
    /\ Get(initems, "f") = PStr("P")
    /\ Has(defs, "P") /\ Get(defs, "P") = PStr("Q")
    /\ Has(defs, "Q") /\ Get(defs, "Q") = PInt(1)
    /\ Get(cinits, "f") = PInt(1)

\* C5: when every entry of pkg.init is a reference or a mapping and the
\* chain of one of them has ended on a list or a mapping, _build_pkg does
\* not fail.
C5_UnresolvableNeverFatal ==
    (/\ IsDict(cinits)
     /\ \A e \in DOMAIN initems.v : IsStr(initems.v[e].v) \/ IsDict(initems.v[e].v)
     /\ \E e \in DOMAIN cinits.v : Unhashable(cinits.v[e].v))
    => pc \notin {"raise_resolve", "raise_sorted"}

\* the names of the initializer entries in the order the module trees
\* contribute them: tree by tree in merge order, key by key in a tree
RECURSIVE Contributed(_, _)
Contributed(i, acc) ==
    IF i > Len(pkgs.v) THEN acc
    ELSE LET d == get(pkgs.v[i].v, "pkg.init")
             new == IF IsDict(d)
                    THEN SelectSeq(Keys(d), LAMBDA k : k \notin Range(acc))
                    ELSE <<>>
         IN Contributed(i + 1, acc \o new)
Position(q, x) == CHOOSE i \in DOMAIN q : q[i] = x

\* C6: two initializers with equal resolved keys stand in the list in the
\* order in which the documents contributed them.
C6_StableOrder ==
    pc = "done" =>
        \A i, j \in DOMAIN inits :
            (i < j /\ Get(cinits, inits[i]) = Get(cinits, inits[j]))
            => Position(Contributed(1, <<>>), inits[i])
                 < Position(Contributed(1, <<>>), inits[j])

\* no mapping of the tree, reached through mappings only, holds the marker
RECURSIVE NoMarker(_)
NoMarker(tree) ==
    IsDict(tree) =>
        /\ ~Has(tree, "deprecated")
        /\ \A i \in DOMAIN tree.v : NoMarker(tree.v[i].v)

\* C8: once both aggregates are built, neither the system-configuration
\* aggregate nor the package aggregate holds a mapping with the marker key.
C8_DeprecatedPruned ==
    pc \in {"cinits", "resolve", "lookup", "done", "raise_items", "raise_resolve",
            "raise_sorted"}
    => NoMarker(syscfg) /\ NoMarker(output)

\* everything of the old aggregate is kept in the new one: its key paths, a
\* mapping as a mapping, a list as a list that starts with the old elements
RECURSIVE Kept(_, _)
Kept(old, new) ==
    IF IsDict(old)
    THEN /\ IsDict(new)
         /\ \A k \in KeySet(old) : Has(new, k) /\ Kept(Get(old, k), Get(new, k))
    ELSE IF IsList(old)
    THEN /\ IsList(new)
         /\ Len(new.v) >= Len(old.v)
         /\ SubSeq(new.v, 1, Len(old.v)) = old.v
    ELSE TRUE

\* C10: a step of the build fold never raises, and keeps every key path,
\* mapping and list prefix of the aggregate; only a leaf that is no
\* container may be overwritten.
C10_AggregateMonotone ==
    [][(SyscfgFold \/ PkgFold) => (pc' # "raise_merge" /\ Kept(output, output'))]_vars

\* a second module tree has been folded in: a list was extended and the
\* mapping beside it kept against a scalar
C10_Witness ==
    /\ pc = "build_syscfg" /\ idx = 3
    /\ HasPath(output, <<"syscfg", "defs", "Q">>)
    /\ At(output, <<"syscfg", "defs", "Q">>) = Ranged
    /\ HasPath(output, <<"syscfg", "defs", "P">>)

(***************************************************************************)
(* Properties of _parse (SpecParse)                                        *)
(***************************************************************************)
IsPrefix(p, q) == Len(p) < Len(q) /\ SubSeq(q, 1, Len(p)) = p

\* yval is found at the path: as the value there, or under the empty key
HoldsAt(top, path, yval) ==
    /\ HasPath(top, path)
    /\ \/ At(top, path) = yval
       \/ /\ IsDict(At(top, path)) /\ Has(At(top, path), "")
          /\ Get(At(top, path), "") = yval

\* C7: when an entry gives K a direct value and has keys that extend K,
\* _parse completes, K maps to a mapping with the direct value under ''
\* and every extending key's value is in the tree.
C7_NoDataLost ==
    (pc = "parsed" /\ Len(yamlfp) = 1 /\ IsDict(yamlfp[1])) =>
        \A K \in KeySet(yamlfp[1]) :
            (\E k2 \in KeySet(yamlfp[1]) : IsPrefix(split(K), split(k2))) =>
                /\ ~IsRaise(contents)
                /\ HasPath(Get(contents, "m1"), split(K))
                /\ LET node == At(Get(contents, "m1"), split(K))
                   IN IsDict(node) /\ Has(node, "")
                      /\ Get(node, "") = Get(yamlfp[1], K)
                /\ \A k2 \in KeySet(yamlfp[1]) :
                      IsPrefix(split(K), split(k2)) =>
                          HoldsAt(Get(contents, "m1"), split(k2), Get(yamlfp[1], k2))

\* two key paths that differ and of which neither extends the other
Unrelated(p, q) == p # q /\ ~IsPrefix(p, q) /\ ~IsPrefix(q, p)

\* C9: of a file with several entries, a key path that one entry alone
\* contributes (no other entry holds it, a part of it or an extension of
\* it) is in the module tree _parse returns, with its value.
C9_EntriesFolded ==
    (pc = "parsed" /\ ~IsRaise(contents) /\ Len(yamlfp) >= 2) =>
        \A d \in DOMAIN yamlfp : \A k \in KeySet(yamlfp[d]) :
            (\A e \in DOMAIN yamlfp \ {d} : \A k2 \in KeySet(yamlfp[e]) :
                Unrelated(split(k), split(k2)))
            => HoldsAt(Get(contents, "m1"), split(k), Get(yamlfp[d], k))

(***************************************************************************)
(* Properties of merge_containers (SpecMerge)                              *)
(***************************************************************************)
SharedKeys == KeySet(obj_a) \cap KeySet(obj_b)
\* a path at which the left operand holds a mapping and the right operand
\* a value that is neither a mapping nor None
LeftMappingAt(path) ==
    /\ path # <<>>
    /\ HasPath(obj_a, path) /\ HasPath(obj_b, path)
    /\ IsDict(At(obj_a, path))
    /\ ~IsDict(At(obj_b, path)) /\ ~IsNone(At(obj_b, path))

====
